---- MODULE Spec2Model ----
(***************************************************************************)
(* RENART backend: the gold price service (src/services/goldPriceService)  *)
(* and the product listings that price products from its cache.            *)
(*                                                                         *)
(* Time is in seconds.  JavaScript values (payload fields, the cached      *)
(* price) are records [k, n, d, s]: k is the kind ("undefined", "num",     *)
(* "NaN", "Infinity", "str"), n/d a rational number, s the characters of a *)
(* string.  Product prices are held in cents, weights in tenths of a gram  *)
(* and popularity scores in tenths.                                        *)
(*                                                                         *)
(* Spec is the price service alone; ListingSpec the request handlers over  *)
(* a catalog with the service idle; ServeSpec both together; PricingSpec   *)
(* the handlers over a range of cached prices; ParseSpec the payload       *)
(* parser of fetchGoldPrice over the answers of a primary source;          *)
(* RefreshSpec the price service with every request settled in the end.    *)
(*                                                                         *)
(* The handlers that write tables run query by query, other requests in    *)
(* between; a query may come back with an error.  FavoritesSpec is         *)
(* addFavorite and removeFavorite, PanelSpec the vendor panel's            *)
(* createProduct, updateProduct and deleteProduct beside the listings,     *)
(* AuthSpec the vendors' login, token refresh and authenticateVendor.      *)
(* They are modelled at the controllers, behind the validators of the      *)
(* routes.                                                                 *)
(***************************************************************************)
EXTENDS Integers, Sequences, FiniteSets, TLC

\* ------------------------------------------------------------------ bounds
MaxTicks == 2
MaxRefresh == MaxTicks + 1
MaxProducts == 3
MaxPage == 2
MaxLimit == 2
MaxHandlers == 2
MaxFavoriteIds == 3

\* ------------------------------------------------------- program constants
DefaultGoldPrice == 2000
\* lastUpdateTime = null, held as a time before every time of the clock
NullTime == 0
DefaultUpdateInterval == 600000
CronMinutes == 10
PrimaryTimeout == 10000
FallbackTimeout == 5000
\* 31.1035 grams per troy ounce, in 1/10000 gram
GramsPerOunce == 311035

CronSeconds == CronMinutes * 60
TimeLimit == MaxTicks * CronSeconds + (PrimaryTimeout + 2 * FallbackTimeout) \div 1000

\* -------------------------------------------------------- JavaScript values
JS(k, n, d, s) == [k |-> k, n |-> n, d |-> d, s |-> s]
Undef == JS("undefined", 0, 1, <<>>)
NaN == JS("NaN", 0, 1, <<>>)
Infinity == JS("Infinity", 0, 1, <<>>)
Rat(n, d) == JS("num", n, d, <<>>)
Num(n) == Rat(n, 1)
Str(s) == JS("str", 0, 1, s)

Digits == <<"0", "1", "2", "3", "4", "5", "6", "7", "8", "9">>
IsDigit(c) == \E i \in 1..10 : Digits[i] = c
DigitVal(c) == (CHOOSE i \in 1..10 : Digits[i] = c) - 1

RECURSIVE DigitPrefix(_, _)
\* the value of the longest prefix of digits of s, acc the value read so far
DigitPrefix(s, acc) ==
  IF s = <<>> \/ ~IsDigit(Head(s)) THEN acc
  ELSE DigitPrefix(Tail(s), acc * 10 + DigitVal(Head(s)))

\* parseFloat on a number or on a string holding an optionally signed integer
\* followed by anything
ParseFloat(v) ==
  CASE v.k = "num" -> v
    [] v.k = "Infinity" -> Infinity
    [] v.k = "str" ->
         LET neg == v.s # <<>> /\ Head(v.s) = "-"
             body == IF neg THEN Tail(v.s) ELSE v.s
         IN IF body = <<>> \/ ~IsDigit(Head(body)) THEN NaN
            ELSE Num((IF neg THEN -1 ELSE 1) * DigitPrefix(body, 0))
    [] OTHER -> NaN

\* ToBoolean
Truthy(v) ==
  CASE v.k = "num" -> v.n # 0
    [] v.k = "Infinity" -> TRUE
    [] v.k = "str" -> v.s # <<>>
    [] OTHER -> FALSE

\* x > 0
Gt0(x) ==
  CASE x.k = "num" -> x.n > 0
    [] x.k = "Infinity" -> TRUE
    [] OTHER -> FALSE

\* 1 / x
Recip(x) ==
  CASE x.k = "num" ->
         IF x.n = 0 THEN Infinity
         ELSE IF x.n > 0 THEN Rat(x.d, x.n) ELSE Rat(-x.d, -x.n)
    [] x.k = "Infinity" -> Num(0)
    [] OTHER -> NaN



\* ------------------------------------------------------------ environment
\* process.env as the service reads it; interval is GOLD_PRICE_UPDATE_INTERVAL
Envs ==
  [nodeEnv : {"production", "development"}, enableUpdates : BOOLEAN,
   apiUrl : BOOLEAN, fixerKey : BOOLEAN, exchangeKey : BOOLEAN,
   interval : {Undef, Str(<<"3", "0", "0", "0", "0", "0">>)}]

\* the process starts in the middle of a cron period or 5 s before a
\* cron minute
StartTimes == {CronSeconds \div 2, CronSeconds - 5}

\* what an HTTP request delivers: ok = FALSE is a rejected axios.get (network
\* error, timeout, non-2xx); body = FALSE is a falsy response.data
Response(ok, body, price, gold, xau) ==
  [ok |-> ok, body |-> body, price |-> price, gold |-> gold, xau |-> xau]
Err == Response(FALSE, FALSE, Undef, Undef, Undef)
NoBody == Response(TRUE, FALSE, Undef, Undef, Undef)

PriceVals == {Undef, Num(1950), Num(0), Str(<<"a", "b", "c">>)}
GoldVals == {Undef, Num(1975), Str(<<"-", "5">>)}
XauVals == {Undef, Rat(1, 2050), Rat(-1, 1900), Str(<<"0">>)}
SecondaryXauVals == {Undef, Rat(1, 2050), Rat(-1, 1900), Str(<<"a", "b", "c">>)}

PrimaryResponses ==
  {Err, NoBody} \cup
  {Response(TRUE, TRUE, p, g, x) : p \in PriceVals, g \in GoldVals, x \in XauVals}
SecondaryResponses ==
  {Err} \cup {Response(TRUE, TRUE, Undef, Undef, x) : x \in SecondaryXauVals}

\* ---------------------------------------------------------- pure functions
\* fetchGoldPrice, the payload of the primary source: the first truthy field
\* among price, gold, rates.XAU decides; null when there is none
ParsePrimary(r) ==
  IF r.body /\ Truthy(r.price) THEN ParseFloat(r.price)
  ELSE IF r.body /\ Truthy(r.gold) THEN ParseFloat(r.gold)
  ELSE IF r.body /\ Truthy(r.xau) THEN Recip(ParseFloat(r.xau))
  ELSE Undef

\* fetchGoldPrice: if (price && price > 0)
PrimaryAccepts(r) == r.ok /\ Truthy(ParsePrimary(r)) /\ Gt0(ParsePrimary(r))

\* fetchFallbackPrice: the secondary sources that are configured, in order
FallbackApis(e) ==
  (IF e.fixerKey THEN <<"fixer">> ELSE <<>>) \o
  (IF e.exchangeKey THEN <<"exchange">> ELSE <<>>)

\* fetchFallbackPrice: the guard that throws before any request is made
FallbackSkipped(e) ==
  (e.nodeEnv = "production" /\ ~e.fixerKey) \/ Len(FallbackApis(e)) = 0

\* fetchFallbackPrice: a secondary's payload ends the loop with a value
FallbackReturns(r) == r.ok /\ r.body /\ Truthy(r.xau)
FallbackValue(r) == Recip(ParseFloat(r.xau))

\* fetchGoldPrice: if (fallbackPrice)
FallbackAccepts(v) == Truthy(v)

FallbackFailedRethrows == "rejected"

\* fetchGoldPrice: catch (fallbackError) logs, and the cached price is returned
FallbackFailed == "returned"

ApiUrlAssumed(e) == FALSE

\* fetchGoldPrice: if (!this.apiUrl), the call returns the cached price at once
ApiUrlMissing(e) == ~e.apiUrl

\* startPeriodicUpdates: the condition under which the cron job is scheduled
CronEnabled(e) == e.nodeEnv = "production" \/ e.enableUpdates

\* constructor: parseInt(process.env.GOLD_PRICE_UPDATE_INTERVAL) || 600000
UpdateIntervalOf(e) ==
  IF Truthy(ParseFloat(e.interval)) THEN ParseFloat(e.interval).n
  ELSE DefaultUpdateInterval

\* -------------------------------------------------------------------- state
VARIABLES
  env,               \* process.env, fixed for the life of the process
  booted,            \* startPeriodicUpdates has run
  updateInterval,    \* this.updateInterval, milliseconds
  currentGoldPrice,  \* this.currentGoldPrice
  lastUpdateTime,    \* this.lastUpdateTime: NullTime or the time of the write
  cronScheduled,     \* cron.schedule was called
  now,               \* the clock, seconds
  lastTick,          \* the time of the latest cron tick, 0 before the first
  tickGap,           \* the time between the two latest cron ticks, 0 before
  started,           \* the number of fetchGoldPrice calls made so far
  pc,                \* per call: the statement it is at or suspended on
  apiIdx,            \* per call: the index in fallbackApis of the request sent
  deadline,          \* per call: when the request in flight times out
  outcome,           \* per call: "pending", "returned" or "rejected"
  running,           \* the call executing synchronously right now, 0 if none
  answers,           \* per call: what each configured secondary answers it
  wrotePrice,        \* per call: the price it has just assigned, else Undef
  committed,         \* <<price, timestamp>> of the latest completed update
  everSucceeded,     \* some source has answered with a positive price
  lastWriter         \* the call that made the latest completed update, 0 if none

oracleVars ==
  <<env, booted, updateInterval, currentGoldPrice, lastUpdateTime, cronScheduled,
    now, lastTick, tickGap, started, pc, apiIdx, deadline, outcome, running,
    answers, wrotePrice, committed, everSucceeded, lastWriter>>

\* the listing requests, further down
VARIABLES
  catalog,   \* the products table, in the order of the name column
  favorites, \* the favorites table, in the order of created_at, latest first
  request,   \* the query of the listing request being served, or NoRequest
  response   \* the response sent for it, or NoResponse

listingVars == <<catalog, favorites, request, response>>

\* the payload parser of fetchGoldPrice on its own, further down
VARIABLES
  payload,   \* response of the primary source handed to the parser
  parsed     \* what the parser made of it

parserVars == <<payload, parsed>>

\* the tables the favorites, vendor panel and vendor login handlers write, and
\* those handlers between their queries, further down
VARIABLES
  images,    \* the product_images table: the (product_id, color) pairs
  vendors,   \* the vendors table: the status column of each vendor
  handlers,  \* the requests being handled: operation, position, locals, answer
  issued,    \* the vendors that were handed a token pair
  nextFavorite \* the id the next favorites row is given

storeVars == <<images, vendors, handlers, issued, nextFavorite>>

Calls == 1..MaxRefresh
InFlight(i) == pc[i] \in {"primary", "fallback"}

\* constructor
OracleInit ==
  /\ env \in Envs
  /\ booted = FALSE
  /\ updateInterval = UpdateIntervalOf(env)
  /\ currentGoldPrice = Num(DefaultGoldPrice)
  /\ lastUpdateTime = NullTime
  /\ cronScheduled = FALSE
  /\ now \in StartTimes
  /\ lastTick = 0
  /\ tickGap = 0
  /\ started = 0
  /\ pc = [i \in Calls |-> "idle"]
  /\ apiIdx = [i \in Calls |-> 0]
  /\ deadline = [i \in Calls |-> 0]
  /\ outcome = [i \in Calls |-> "pending"]
  /\ running = 0
  /\ answers = [i \in Calls |-> <<>>]
  /\ wrotePrice = [i \in Calls |-> Undef]
  /\ committed = <<Num(DefaultGoldPrice), NullTime>>
  /\ everSucceeded = FALSE
  /\ lastWriter = 0

\* fetchGoldPrice up to its first await: without an API URL it returns the
\* cached price, otherwise the request to the primary source is sent
Invoke(i) ==
  /\ started' = i
  /\ IF ApiUrlMissing(env)
     THEN /\ pc' = [pc EXCEPT ![i] = "done"]
          /\ outcome' = [outcome EXCEPT ![i] = "returned"]
          /\ UNCHANGED deadline
     ELSE /\ pc' = [pc EXCEPT ![i] = "primary"]
          /\ deadline' = [deadline EXCEPT ![i] = now + PrimaryTimeout \div 1000]
          /\ UNCHANGED outcome
  /\ UNCHANGED <<currentGoldPrice, lastUpdateTime, apiIdx, running, answers,
                 wrotePrice, committed, everSucceeded, lastWriter>>

\* startPeriodicUpdates: schedule the cron job when enabled, then the initial
\* fetch
StartPeriodicUpdates ==
  /\ ~booted
  /\ booted' = TRUE
  /\ cronScheduled' = CronEnabled(env)
  /\ Invoke(1)
  /\ UNCHANGED <<env, updateInterval, now, lastTick, tickGap>>
  /\ UNCHANGED <<listingVars, parserVars, storeVars>>

TickDue == cronScheduled /\ now % CronSeconds = 0 /\ lastTick < now

\* the cron callback of '*/10 * * * *': one more fetchGoldPrice
CronTick ==
  /\ booted /\ TickDue /\ running = 0
  /\ started < MaxRefresh
  /\ lastTick' = now
  /\ tickGap' = IF lastTick = 0 THEN 0 ELSE now - lastTick
  /\ Invoke(started + 1)
  /\ UNCHANGED <<env, booted, updateInterval, cronScheduled, now>>
  /\ UNCHANGED <<listingVars, parserVars, storeVars>>

\* time passes, to the next cron minute or the next timeout, whichever is first;
\* a request in flight is answered or times out before its deadline passes
NextCronTime == (now \div CronSeconds + 1) * CronSeconds
NextInstant ==
  LET ds == {deadline[i] : i \in {j \in Calls : InFlight(j)}} \cup {NextCronTime}
  IN CHOOSE t \in ds : \A u \in ds : t <= u

AdvanceClock ==
  /\ booted /\ running = 0
  /\ ~TickDue
  /\ \A i \in Calls : InFlight(i) => deadline[i] > now
  /\ NextInstant <= TimeLimit
  /\ now' = NextInstant
  /\ UNCHANGED <<env, booted, updateInterval, currentGoldPrice, lastUpdateTime,
                 cronScheduled, lastTick, tickGap, started, pc, apiIdx, deadline,
                 outcome, running, answers, wrotePrice, committed, everSucceeded,
                 lastWriter>>
  /\ UNCHANGED <<listingVars, parserVars, storeVars>>

YieldsAfterPriceAssigned(i) == 0

\* fetchGoldPrice: currentGoldPrice and lastUpdateTime are assigned by two
\* consecutive statements with no await between them, so the call keeps the
\* event loop until the second assignment is done
AfterPriceAssigned(i) == i

\* the first of the two assignments to the cache
AssignPrice(i, v) ==
  /\ currentGoldPrice' = v
  /\ wrotePrice' = [wrotePrice EXCEPT ![i] = v]
  /\ pc' = [pc EXCEPT ![i] = "stamp"]
  /\ running' = AfterPriceAssigned(i)
  /\ everSucceeded' = (everSucceeded \/ Gt0(v))
  /\ UNCHANGED <<lastUpdateTime, apiIdx, deadline, outcome, answers, committed,
                 lastWriter>>

\* the call is over: what it kept between its steps is dropped
Finish(i, result) ==
  /\ pc' = [pc EXCEPT ![i] = "done"]
  /\ outcome' = [outcome EXCEPT ![i] = result]
  /\ apiIdx' = [apiIdx EXCEPT ![i] = 0]
  /\ deadline' = [deadline EXCEPT ![i] = 0]
  /\ answers' = [answers EXCEPT ![i] = <<>>]
  /\ wrotePrice' = [wrotePrice EXCEPT ![i] = Undef]
  /\ running' = 0

\* fetchGoldPrice resumes with the primary source's answer; a rejected request
\* or a price that is not accepted throws into the catch block
PrimaryResponds(i, r) ==
  /\ pc[i] = "primary" /\ running = 0
  /\ IF PrimaryAccepts(r)
     THEN AssignPrice(i, ParsePrimary(r))
     ELSE /\ pc' = [pc EXCEPT ![i] = "catch"]
          /\ running' = i
          /\ answers' \in {[answers EXCEPT ![i] = a] :
                             a \in [1..Len(FallbackApis(env)) -> SecondaryResponses]}
          /\ UNCHANGED <<currentGoldPrice, lastUpdateTime, apiIdx, deadline, outcome,
                         wrotePrice, committed, everSucceeded, lastWriter>>
  /\ UNCHANGED <<env, booted, updateInterval, cronScheduled, now, lastTick,
                 tickGap, started>>
  /\ UNCHANGED <<listingVars, parserVars, storeVars>>

\* the catch block calls fetchFallbackPrice, which throws at once or sends the
\* request to the first configured secondary
EnterFallback(i) ==
  /\ pc[i] = "catch" /\ running = i
  /\ IF FallbackSkipped(env)
     THEN Finish(i, FallbackFailed)
     ELSE /\ pc' = [pc EXCEPT ![i] = "fallback"]
          /\ apiIdx' = [apiIdx EXCEPT ![i] = 1]
          /\ deadline' = [deadline EXCEPT ![i] = now + FallbackTimeout \div 1000]
          /\ running' = 0
          /\ UNCHANGED <<outcome, answers, wrotePrice>>
  /\ UNCHANGED <<env, booted, updateInterval, currentGoldPrice, lastUpdateTime,
                 cronScheduled, now, lastTick, tickGap, started, committed,
                 everSucceeded, lastWriter>>
  /\ UNCHANGED <<listingVars, parserVars, storeVars>>

\* the second assignment: lastUpdateTime = new Date(), and the price is returned
StampTime(i) ==
  /\ pc[i] = "stamp" /\ running \in {0, i}
  /\ lastUpdateTime' = now
  /\ committed' = <<wrotePrice[i], now>>
  /\ lastWriter' = i
  /\ Finish(i, "returned")
  /\ UNCHANGED <<env, booted, updateInterval, currentGoldPrice, cronScheduled, now,
                 lastTick, tickGap, started, everSucceeded>>
  /\ UNCHANGED <<listingVars, parserVars, storeVars>>

SameApiAgain(k) == k

\* fetchFallbackPrice: for (const api of fallbackApis), a failed secondary is
\* followed by the next one of the list
NextApi(k) == k + 1

\* fetchFallbackPrice resumes with the answer of the secondary it asked
FallbackResponds(i) ==
  /\ pc[i] = "fallback" /\ running = 0
  /\ LET r == answers[i][apiIdx[i]] IN
       IF FallbackReturns(r)
       THEN IF FallbackAccepts(FallbackValue(r))
            THEN AssignPrice(i, FallbackValue(r))
            ELSE /\ Finish(i, "returned")
                 /\ UNCHANGED <<currentGoldPrice, lastUpdateTime, committed,
                                everSucceeded, lastWriter>>
       ELSE IF apiIdx[i] < Len(FallbackApis(env))
            THEN /\ apiIdx' = [apiIdx EXCEPT ![i] = NextApi(@)]
                 /\ deadline' = [deadline EXCEPT ![i] = now + FallbackTimeout \div 1000]
                 /\ UNCHANGED <<currentGoldPrice, lastUpdateTime, pc, outcome,
                                running, answers, wrotePrice, committed,
                                everSucceeded, lastWriter>>
            ELSE /\ Finish(i, FallbackFailed)
                 /\ UNCHANGED <<currentGoldPrice, lastUpdateTime, committed,
                                everSucceeded, lastWriter>>
  /\ UNCHANGED <<env, booted, updateInterval, cronScheduled, now, lastTick,
                 tickGap, started>>
  /\ UNCHANGED <<listingVars, parserVars, storeVars>>

GetCurrentPrice == currentGoldPrice
GetLastUpdateTime == lastUpdateTime

OracleNext ==
  \/ StartPeriodicUpdates
  \/ CronTick
  \/ AdvanceClock
  \/ \E i \in Calls, r \in PrimaryResponses : PrimaryResponds(i, r)
  \/ \E i \in Calls : EnterFallback(i)
  \/ \E i \in Calls : StampTime(i)
  \/ \E i \in Calls : FallbackResponds(i)

\* ------------------------------------------------------- product pricing
RECURSIVE ScaledQuotient(_, _, _, _)
\* <<floor(a * 10^k / d), the remainder>> by long division, q and r the
\* quotient and remainder of a by d
ScaledQuotient(q, r, d, k) ==
  IF k = 0 THEN <<q, r>>
  ELSE ScaledQuotient(q * 10 + (r * 10) \div d, (r * 10) % d, d, k - 1)

\* Math.round(x) for x = qr[1] + qr[2] / d: floor(x + 0.5)
RoundHalfUp(qr, d) == IF 2 * qr[2] >= d THEN qr[1] + 1 ELSE qr[1]

PriceCentsPerScore(g, p10, w10) ==
  LET a == 100 * w10 * g.n
      d == GramsPerOunce * g.d * (p10 + 10)
  IN RoundHalfUp(ScaledQuotient(a \div d, a % d, d, 4), d)

PriceCentsPerOunce(g, p10, w10) ==
  LET a == (p10 + 10) * w10 * g.n
  IN RoundHalfUp(<<a \div g.d, a % g.d>>, g.d)

\* calculateProductPrice for a finite gold price g, in cents:
\* round((p + 1) * w * (g / 31.1035) * 100), p = p10 / 10, w = w10 / 10
PriceCents(g, p10, w10) ==
  LET a == (p10 + 10) * w10 * g.n
      d == GramsPerOunce * g.d
  IN RoundHalfUp(ScaledQuotient(a \div d, a % d, d, 4), d)

\* calculateProductPrice: Math.round(price * 100) / 100
CalculateProductPrice(p10, w10) ==
  IF currentGoldPrice.k = "num"
  THEN Rat(PriceCents(currentGoldPrice, p10, w10), 100)
  ELSE currentGoldPrice

\* a < b for numbers
Lt(a, b) ==
  CASE a.k = "num" /\ b.k = "num" -> a.n * b.d < b.n * a.d
    [] a.k = "num" /\ b.k = "Infinity" -> TRUE
    [] OTHER -> FALSE

\* ------------------------------------------------------- product listings
\* products rows: weight in tenths of a gram, popularity_score in tenths
ProductRow(w10, p10, active, vendor) ==
  [w10 |-> w10, p10 |-> p10, active |-> active, vendor |-> vendor]
\* the place of a row that was deleted: ids are not given out again
NoRow == ProductRow(0, 0, FALSE, 0)
RowTypes ==
  {ProductRow(10, 0, TRUE, 1), ProductRow(155, 80, TRUE, 1),
   ProductRow(52, 50, TRUE, 2), ProductRow(10, 0, FALSE, 1)}
Catalogs == UNION {[1..n -> RowTypes] : n \in 0..MaxProducts}
Vendors == {1, 2}

\* the validated query string (productQuerySchema): numbers or undefined
Sorts == {<<"name", "asc">>, <<"price", "asc">>, <<"price", "desc">>,
          <<"weight", "desc">>}
Requests ==
  [page : 1..MaxPage, limit : 1..MaxLimit,
   minPrice : {Undef, Rat(10000, 100)},
   maxPrice : {Undef, Num(0), Rat(500000, 100)},
   sort : Sorts, vendorId : {0}, userId : {0}, id : {0}, route : {"products"}]
VendorRequests ==
  [page : 1..MaxPage, limit : 1..MaxLimit,
   minPrice : {Undef, Rat(10000, 100)}, maxPrice : {Undef, Rat(500000, 100)},
   sort : Sorts, vendorId : {1, 3}, userId : {0}, id : {0},
   route : {"vendorProducts"}]

Named(cat) == [i \in 1..Len(cat) |-> [name |-> i, row |-> cat[i]]]

RECURSIVE InsertByKey(_, _)
\* x put into s, which is sorted by key, after every element whose key is not
\* larger
InsertByKey(s, x) ==
  IF s = <<>> THEN <<x>>
  ELSE IF x.key < Head(s).key THEN <<x>> \o s
  ELSE <<Head(s)>> \o InsertByKey(Tail(s), x)

RECURSIVE SortByKey(_)
\* a stable sort of s by key, ascending
SortByKey(s) ==
  IF s = <<>> THEN <<>>
  ELSE InsertByKey(SortByKey(SubSeq(s, 1, Len(s) - 1)), s[Len(s)])

Unkeyed(s) == [i \in 1..Len(s) |-> s[i].val]

\* the switch on sortBy: price is not a column, the query is ordered by name
OrderColumn(sortBy) ==
  CASE sortBy = "weight" -> "weight"
    [] sortBy = "popularity" -> "popularity_score"
    [] OTHER -> "name"

ColumnOf(p, col) ==
  CASE col = "weight" -> p.row.w10
    [] col = "popularity_score" -> p.row.p10
    [] OTHER -> p.name

\* query.order(column, { ascending })
OrderBy(ps, col, asc) ==
  Unkeyed(SortByKey([i \in 1..Len(ps) |->
    [key |-> IF asc THEN ColumnOf(ps[i], col) ELSE -ColumnOf(ps[i], col),
     val |-> ps[i]]]))

\* query.range(from, to): rows from..to, counted from 0
Range(ps, from, to) ==
  SubSeq(ps, from + 1, IF to + 1 < Len(ps) THEN to + 1 ELSE Len(ps))

\* Array.prototype.slice(start, end)
Slice(ps, start, end) ==
  SubSeq(ps, start + 1, IF end < Len(ps) THEN end ELSE Len(ps))

\* the rows the query selects: active and, in a vendor's listing, of that
\* vendor (no search, weight, popularity or color filter is given)
Matches(p, q) ==
  /\ p.row.active
  /\ q.route = "vendorProducts" => p.row.vendor = q.vendorId
Candidates(cat, q) == SelectSeq(Named(cat), LAMBDA p : Matches(p, q))

DecorateAtStartupPrice(ps) ==
  [i \in 1..Len(ps) |->
     [name |-> ps[i].name, row |-> ps[i].row,
      calculatedPrice |->
        Rat(PriceCents(Num(DefaultGoldPrice), ps[i].row.p10, ps[i].row.w10), 100)]]

\* products.map: each product with its calculatedPrice
Decorate(ps) ==
  [i \in 1..Len(ps) |->
     [name |-> ps[i].name, row |-> ps[i].row,
      calculatedPrice |-> CalculateProductPrice(ps[i].row.p10, ps[i].row.w10)]]

\* the price filter's callback
InPriceRange(p, q) ==
  /\ ~(Truthy(q.minPrice) /\ Lt(p.calculatedPrice, q.minPrice))
  /\ ~(Truthy(q.maxPrice) /\ Lt(q.maxPrice, p.calculatedPrice))

PriceFilterActive(q) == Truthy(q.minPrice) \/ Truthy(q.maxPrice)

PriceKey(p) == IF p.calculatedPrice.k = "num" THEN p.calculatedPrice.n ELSE 0

\* filteredProducts.sort by calculatedPrice, a - b or b - a
SortByPrice(ps, asc) ==
  Unkeyed(SortByKey([i \in 1..Len(ps) |->
    [key |-> IF asc THEN PriceKey(ps[i]) ELSE -PriceKey(ps[i]), val |-> ps[i]]]))

Ceil(a, b) == (a + b - 1) \div b

\* the body of getProducts and of getVendorProducts from the count query on:
\* the page is cut by the database, then priced, filtered by price, cut again
\* and sorted by price
ListPage(cat, q) ==
  LET count == Len(Candidates(cat, q))
      ordered == OrderBy(Candidates(cat, q), OrderColumn(q.sort[1]), q.sort[2] = "asc")
      offset == (q.page - 1) * q.limit
      products == Range(ordered, offset, offset + q.limit - 1)
      productsWithPrices == Decorate(products)
      filtered == IF PriceFilterActive(q)
                  THEN SelectSeq(productsWithPrices, LAMBDA p : InPriceRange(p, q))
                  ELSE productsWithPrices
      finalCount == IF PriceFilterActive(q) THEN Len(filtered) ELSE count
      paged == IF PriceFilterActive(q)
               THEN Slice(filtered, offset, offset + q.limit)
               ELSE filtered
      sorted == IF q.sort[1] = "price"
                THEN SortByPrice(paged, q.sort[2] = "asc")
                ELSE paged
  IN [status |-> 200, products |-> sorted, page |-> q.page, limit |-> q.limit,
      total |-> finalCount, pages |-> Ceil(finalCount, q.limit),
      goldPrice |-> GetCurrentPrice, lastPriceUpdate |-> GetLastUpdateTime,
      database |-> "unknown", goldPriceService |-> "unknown"]

ErrorResponse(status) ==
  [status |-> status, products |-> <<>>, page |-> 0, limit |-> 0, total |-> 0,
   pages |-> 0, goldPrice |-> Undef, lastPriceUpdate |-> NullTime,
   database |-> "unknown", goldPriceService |-> "unknown"]

NoRequest ==
  [page |-> 0, limit |-> 0, minPrice |-> Undef, maxPrice |-> Undef,
   sort |-> <<"name", "asc">>, vendorId |-> 0, userId |-> 0, id |-> 0,
   route |-> "none"]
NoResponse == ErrorResponse(0)

RefreshesWhenNeverUpdated ==
  /\ running = 0
  /\ IF lastUpdateTime = NullTime /\ started < MaxRefresh
     THEN /\ Invoke(started + 1)
          /\ UNCHANGED <<env, booted, updateInterval, cronScheduled, now, lastTick,
                         tickGap>>
     ELSE UNCHANGED oracleVars

ResetsPriceOnRead ==
  /\ running = 0
  /\ currentGoldPrice' = Num(DefaultGoldPrice)
  /\ UNCHANGED <<env, booted, updateInterval, lastUpdateTime, cronScheduled, now,
                 lastTick, tickGap, started, pc, apiIdx, deadline, outcome,
                 running, answers, wrotePrice, committed, everSucceeded,
                 lastWriter>>

\* a request handler resumes when its last query is answered and runs to its
\* response without another await; it does not touch the price service
ReadsCacheOnly ==
  /\ running = 0
  /\ UNCHANGED oracleVars

\* GET /products
GetProducts(q) ==
  /\ request = NoRequest
  /\ request' = q
  /\ \/ response' = ListPage(catalog, q)
     \/ response' = ErrorResponse(500)
  /\ ReadsCacheOnly
  /\ UNCHANGED <<catalog, favorites, parserVars, storeVars>>

\* GET /vendors/:vendorId/products
GetVendorProducts(q) ==
  /\ request = NoRequest
  /\ request' = q
  /\ IF q.vendorId \notin Vendors
     THEN response' = ErrorResponse(404)
     ELSE \/ response' = ListPage(catalog, q)
          \/ response' = ErrorResponse(500)
  /\ ReadsCacheOnly
  /\ UNCHANGED <<catalog, favorites, parserVars, storeVars>>

\* the vendor panel's getVendorProducts: the products of the authenticated
\* vendor, active or not, a page of them priced
PanelRequests ==
  [page : 1..MaxPage, limit : 1..MaxLimit, minPrice : {Undef}, maxPrice : {Undef},
   sort : {<<"name", "asc">>, <<"weight", "desc">>}, vendorId : Vendors,
   userId : {0}, id : {0}, route : {"panel"}]
PanelPage(cat, q) ==
  LET own == SelectSeq(Named(cat), LAMBDA p : p.row.vendor = q.vendorId)
      ordered == OrderBy(own, OrderColumn(q.sort[1]), q.sort[2] = "asc")
      offset == (q.page - 1) * q.limit
      products == Range(ordered, offset, offset + q.limit - 1)
  IN [status |-> 200, products |-> Decorate(products), page |-> q.page,
      limit |-> q.limit, total |-> Len(own), pages |-> Ceil(Len(own), q.limit),
      goldPrice |-> GetCurrentPrice, lastPriceUpdate |-> GetLastUpdateTime,
      database |-> "unknown", goldPriceService |-> "unknown"]
PanelGetVendorProducts(q) ==
  /\ request = NoRequest
  /\ request' = q
  /\ \/ response' = PanelPage(catalog, q)
     \/ response' = ErrorResponse(500)
  /\ ReadsCacheOnly
  /\ UNCHANGED <<catalog, favorites, parserVars, storeVars>>

\* favorites rows: the user and the product, by its place in the catalog
Users == {1, 2}
FavoriteRow(id, u, p) == [id |-> id, user |-> u, product |-> p]
FavoriteLists(cat) ==
  {<<>>} \cup {[i \in 1..n |-> FavoriteRow(n + 1 - i, 1, n + 1 - i)] :
                 n \in 1..(IF Len(cat) < 2 THEN Len(cat) ELSE 2)}
FavoritesRequest(u) == [NoRequest EXCEPT !.userId = u, !.route = "favorites"]

\* getFavorites: the user's favorites with their products, each priced
FavoritesPage(cat, favs, u) ==
  LET mine == SelectSeq(favs, LAMBDA f : f.user = u)
      products == [i \in 1..Len(mine) |-> Named(cat)[mine[i].product]]
  IN [status |-> 200, products |-> Decorate(products), page |-> 0, limit |-> 0,
      total |-> Len(mine), pages |-> 0,
      goldPrice |-> GetCurrentPrice, lastPriceUpdate |-> GetLastUpdateTime,
      database |-> "unknown", goldPriceService |-> "unknown"]
GetFavorites(u) ==
  /\ request = NoRequest
  /\ request' = FavoritesRequest(u)
  /\ \/ response' = FavoritesPage(catalog, favorites, u)
     \/ response' = ErrorResponse(500)
  /\ ReadsCacheOnly
  /\ UNCHANGED <<catalog, favorites, parserVars, storeVars>>

HealthRequest == [NoRequest EXCEPT !.route = "health"]

\* healthCheck with the database answering, with or without an error: 503
\* unless both services are healthy
HealthStatus(dbError) ==
  LET db == IF dbError THEN "unhealthy" ELSE "healthy"
      gold == IF Gt0(GetCurrentPrice) THEN "healthy" ELSE "unhealthy"
  IN [ErrorResponse(IF db = "healthy" /\ gold = "healthy" THEN 200 ELSE 503)
        EXCEPT !.goldPrice = GetCurrentPrice,
               !.lastPriceUpdate = GetLastUpdateTime,
               !.database = db, !.goldPriceService = gold]

\* healthCheck; when the database query throws, the catch block answers 503
\* with the services as far as they were checked
HealthCheck ==
  /\ request = NoRequest
  /\ request' = HealthRequest
  /\ \/ \E dbError \in BOOLEAN : response' = HealthStatus(dbError)
     \/ response' = ErrorResponse(503)
  /\ ReadsCacheOnly
  /\ UNCHANGED <<catalog, favorites, parserVars, storeVars>>

\* res.json: the response leaves, the next request can be served
\* the single product of a detail response, priced, with the cached pair
DetailResponse(found) ==
  [status |-> 200, products |-> Decorate(found), page |-> 0, limit |-> 0,
   total |-> Len(found), pages |-> 0, goldPrice |-> GetCurrentPrice,
   lastPriceUpdate |-> GetLastUpdateTime, database |-> "unknown",
   goldPriceService |-> "unknown"]
ProductIds == 1..(MaxProducts + 1)

\* GET /products/:id: the active row with this id, or 404
ProductRequest(id) == [NoRequest EXCEPT !.id = id, !.route = "product"]
AnyProduct(cat, id) ==
  SelectSeq(Named(cat), LAMBDA p : p.name = id /\ p.row # NoRow)

\* .eq('id', id).eq('is_active', true)
ActiveProduct(cat, id) ==
  SelectSeq(Named(cat), LAMBDA p : p.name = id /\ p.row.active)
GetProductById(id) ==
  LET found == ActiveProduct(catalog, id)
  IN /\ request = NoRequest
     /\ request' = ProductRequest(id)
     /\ \/ found # <<>> /\ response' = DetailResponse(found)
        \/ response' = ErrorResponse(404)
     /\ ReadsCacheOnly
     /\ UNCHANGED <<catalog, favorites, parserVars, storeVars>>

\* the vendor panel's GET /products/:id: the row with this id and the vendor_id
\* of the authenticated vendor, active or not, or 404
PanelProductRequest(v, id) ==
  [NoRequest EXCEPT !.id = id, !.vendorId = v, !.route = "panelProduct"]
AnyVendorsProduct(cat, v, id) ==
  SelectSeq(Named(cat), LAMBDA p : p.name = id /\ p.row.vendor # 0)

\* .eq('id', id).eq('vendor_id', vendorId)
VendorProduct(cat, v, id) ==
  SelectSeq(Named(cat), LAMBDA p : p.name = id /\ p.row.vendor = v)
GetVendorProductById(v, id) ==
  LET found == VendorProduct(catalog, v, id)
  IN /\ request = NoRequest
     /\ request' = PanelProductRequest(v, id)
     /\ \/ found # <<>> /\ response' = DetailResponse(found)
        \/ response' = ErrorResponse(404)
     /\ ReadsCacheOnly
     /\ UNCHANGED <<catalog, favorites, parserVars, storeVars>>

Respond ==
  /\ request # NoRequest
  /\ request' = NoRequest
  /\ response' = NoResponse
  /\ UNCHANGED <<catalog, favorites, oracleVars, parserVars, storeVars>>

ListingInit ==
  /\ catalog \in Catalogs
  /\ favorites \in FavoriteLists(catalog)
  /\ request = NoRequest
  /\ response = NoResponse

ListingNext ==
  \/ \E q \in Requests : GetProducts(q)
  \/ \E q \in VendorRequests : GetVendorProducts(q)
  \/ \E q \in PanelRequests : PanelGetVendorProducts(q)
  \/ \E u \in Users : GetFavorites(u)
  \/ \E id \in ProductIds : GetProductById(id)
  \/ \E v \in Vendors, id \in ProductIds : GetVendorProductById(v, id)
  \/ HealthCheck
  \/ Respond

\* ------------------------------------------- the handlers that write tables
Handlers == 1..MaxHandlers

\* a validated request body of the vendor panel: weight in tenths of a gram (0:
\* not sent), popularityScore in tenths (-1: not sent), isActive ("": not sent),
\* colors (<<>>: not sent)
Body(weight, popularityScore, isActive, colors) ==
  [weight |-> weight, popularityScore |-> popularityScore, isActive |-> isActive,
   colors |-> colors]
EmptyBody == Body(0, -1, "", <<>>)

\* what a request presents. A bearer or refresh token: the vendor id and type
\* of its payload, the secret it verifies with ("access", "refresh", or "" when
\* jwt.verify throws). An email and password: the vendor with this email, type
\* "password", secret "right" or "wrong"
Token(id, type, secret) == [id |-> id, type |-> type, secret |-> secret]
NoToken == Token(0, "", "")

\* a request being handled: op and pc say where it is, caller is the
\* authenticated user or vendor, target the id of its path or body, seen the
\* status column it read, wrote whether it has changed a row, status its answer
Handler(op, at, caller, target, body, token) ==
  [op |-> op, pc |-> at, caller |-> caller, target |-> target, body |-> body,
   token |-> token, seen |-> "", wrote |-> FALSE, status |-> 0]
IdleHandler == Handler("idle", "idle", 0, 0, EmptyBody, NoToken)

StoreIdle ==
  /\ images = {}
  /\ vendors = [v \in Vendors |-> "active"]
  /\ handlers = [h \in Handlers |-> IdleHandler]
  /\ issued = {}
  /\ nextFavorite = Len(favorites) + 1

\* the handler resumes with the answer of its query and goes on to pc at, or
\* answers the request: its locals are gone, the answer it sent stays on view
\* until the next request takes its place
Resume(h, at) == handlers' = [handlers EXCEPT ![h].pc = at]
Answered(op, status) ==
  [IdleHandler EXCEPT !.op = op, !.pc = "done", !.status = status]
Answer(h, status) ==
  handlers' = [handlers EXCEPT ![h] = Answered(handlers[h].op, status)]
Free(h) == handlers[h].pc \in {"idle", "done"}
At(h, op, at) == handlers[h].op = op /\ handlers[h].pc = at

\* ------------------------------------------------------------ favorites
FavoriteOf(u, p) == {i \in 1..Len(favorites) :
                      favorites[i].user = u /\ favorites[i].product = p}

\* POST /favorites: the request arrives and the product is looked up
AddFavorite(h, u, p) ==
  /\ Free(h)
  /\ handlers' = [handlers EXCEPT ![h] =
                    Handler("addFavorite", "findProduct", u, p, EmptyBody, NoToken)]
  /\ UNCHANGED <<favorites, images, vendors, issued, nextFavorite>>
  /\ UNCHANGED <<oracleVars, catalog, request, response, parserVars>>

\* addFavorite after the product query: 404 unless an active product came
\* back, otherwise the existing favorite is looked up
AddFavoriteProduct(h) ==
  LET p == handlers[h].target IN
  /\ At(h, "addFavorite", "findProduct")
  /\ \/ p \in 1..Len(catalog) /\ catalog[p].active /\ Resume(h, "findExisting")
     \/ Answer(h, 404)
  /\ UNCHANGED <<favorites, images, vendors, issued, nextFavorite>>
  /\ UNCHANGED <<oracleVars, catalog, request, response, parserVars>>

\* addFavorite after the check: 409 when a row of this user and product came
\* back; with no row, or with an error (seen), the insert is sent
AddFavoriteExisting(h) ==
  /\ At(h, "addFavorite", "findExisting")
  /\ \/ FavoriteOf(handlers[h].caller, handlers[h].target) # {} /\ Answer(h, 409)
     \/ FavoriteOf(handlers[h].caller, handlers[h].target) = {} /\ Resume(h, "insert")
     \/ handlers' = [handlers EXCEPT ![h].pc = "insert", ![h].seen = "error"]
  /\ UNCHANGED <<favorites, images, vendors, issued, nextFavorite>>
  /\ UNCHANGED <<oracleVars, catalog, request, response, parserVars>>

FavoritesAllowDuplicates(u, p) == FALSE

\* UNIQUE(user_id, product_id) of the favorites table rejects the insert
UniqueViolation(u, p) == FavoriteOf(u, p) # {}

\* addFavorite after the insert: 201 with the new row, 500 on insertError
AddFavoriteInsert(h) ==
  LET u == handlers[h].caller
      p == handlers[h].target IN
  /\ At(h, "addFavorite", "insert")
  /\ \/ /\ ~UniqueViolation(u, p)
        /\ nextFavorite <= MaxFavoriteIds
        /\ favorites' = <<FavoriteRow(nextFavorite, u, p)>> \o favorites
        /\ nextFavorite' = nextFavorite + 1
        /\ Answer(h, 201)
     \/ /\ Answer(h, 500)
        /\ UNCHANGED <<favorites, nextFavorite>>
  /\ UNCHANGED <<images, vendors, issued>>
  /\ UNCHANGED <<oracleVars, catalog, request, response, parserVars>>

\* DELETE /favorites/:id: the request arrives and the favorite is looked up
RemoveFavorite(h, u, id) ==
  /\ Free(h)
  /\ handlers' = [handlers EXCEPT ![h] =
                    Handler("removeFavorite", "findFavorite", u, id, EmptyBody, NoToken)]
  /\ UNCHANGED <<favorites, images, vendors, issued, nextFavorite>>
  /\ UNCHANGED <<oracleVars, catalog, request, response, parserVars>>

OwnFavorite(f, u, id) == f.id = id /\ f.user = u

\* removeFavorite after the check: 404 unless the row of this id and user came
\* back, otherwise the delete is sent
RemoveFavoriteFound(h) ==
  /\ At(h, "removeFavorite", "findFavorite")
  /\ \/ /\ \E i \in 1..Len(favorites) :
             OwnFavorite(favorites[i], handlers[h].caller, handlers[h].target)
        /\ Resume(h, "delete")
     \/ Answer(h, 404)
  /\ UNCHANGED <<favorites, images, vendors, issued, nextFavorite>>
  /\ UNCHANGED <<oracleVars, catalog, request, response, parserVars>>

\* removeFavorite after the delete: 200, or 500 on deleteError
RemoveFavoriteDeleted(h) ==
  /\ At(h, "removeFavorite", "delete")
  /\ \/ /\ favorites' = SelectSeq(favorites, LAMBDA f :
                            ~OwnFavorite(f, handlers[h].caller, handlers[h].target))
        /\ Answer(h, 200)
     \/ /\ Answer(h, 500)
        /\ UNCHANGED favorites
  /\ UNCHANGED <<images, vendors, issued, nextFavorite>>
  /\ UNCHANGED <<oracleVars, catalog, request, response, parserVars>>

\* --------------------------------------------------------- vendor panel
\* .eq('id', id)
ProductById(cat, id) ==
  SelectSeq(Named(cat), LAMBDA p : p.name = id /\ p.row # NoRow)
ImageRows(id, colors) == {<<id, colors[i]>> : i \in 1..Len(colors)}
ImagesOf(id) == {im \in images : im[1] = id}

\* UNIQUE(product_id, color) of product_images rejects the insert
ImageConflict(id, colors) ==
  \/ \E i, j \in 1..Len(colors) : i # j /\ colors[i] = colors[j]
  \/ ImageRows(id, colors) \cap images # {}

PanelFrame ==
  UNCHANGED <<oracleVars, favorites, request, response, parserVars, vendors,
              issued, nextFavorite>>

\* POST /products of the panel: the request arrives, the product insert is sent
CreateProduct(h, v, b) ==
  /\ Free(h)
  /\ handlers' = [handlers EXCEPT ![h] =
                    Handler("createProduct", "insertProduct", v, 0, b, NoToken)]
  /\ UNCHANGED <<catalog, images>>
  /\ PanelFrame

\* createProduct after the product insert: 500 on productError, otherwise the
\* row is there and the image rows are sent
CreateProductInserted(h) ==
  LET b == handlers[h].body IN
  /\ At(h, "createProduct", "insertProduct")
  /\ \/ /\ catalog' = Append(catalog, ProductRow(b.weight, b.popularityScore,
                                                 b.isActive # "false",
                                                 handlers[h].caller))
        /\ handlers' = [handlers EXCEPT ![h].pc = "insertImages",
                                        ![h].target = Len(catalog) + 1,
                                        ![h].wrote = TRUE]
     \/ /\ Answer(h, 500)
        /\ UNCHANGED catalog
  /\ UNCHANGED images
  /\ PanelFrame

\* createProduct after the image insert: on imageError the rollback delete is
\* sent, otherwise the product is fetched
CreateProductImages(h) ==
  LET id == handlers[h].target
      colors == handlers[h].body.colors IN
  /\ At(h, "createProduct", "insertImages")
  /\ \/ /\ ~ImageConflict(id, colors)
        /\ images' = images \cup ImageRows(id, colors)
        /\ Resume(h, "fetch")
     \/ /\ Resume(h, "rollback")
        /\ UNCHANGED images
  /\ UNCHANGED catalog
  /\ PanelFrame

\* createProduct: await supabase.from('products').delete(), its result is
\* not looked at
RollbackMayFail == TRUE

\* createProduct after the rollback: 500, the row deleted or not
CreateProductRollback(h) ==
  LET id == handlers[h].target IN
  /\ At(h, "createProduct", "rollback")
  /\ \/ catalog' = [catalog EXCEPT ![id] = NoRow]
     \/ RollbackMayFail /\ UNCHANGED catalog
  /\ Answer(h, 500)
  /\ UNCHANGED images
  /\ PanelFrame

\* createProduct after the fetch, whose error is not looked at: 201
CreateProductFetched(h) ==
  /\ At(h, "createProduct", "fetch")
  /\ Answer(h, 201)
  /\ UNCHANGED <<catalog, images>>
  /\ PanelFrame

\* PUT /products/:id of the panel: the request arrives, the ownership check is
\* sent
UpdateProduct(h, v, id, b) ==
  /\ Free(h)
  /\ handlers' = [handlers EXCEPT ![h] =
                    Handler("updateProduct", "checkOwner", v, id, b, NoToken)]
  /\ UNCHANGED <<catalog, images>>
  /\ PanelFrame

\* updateProduct, deleteProduct after the ownership check: 404 unless the row of
\* this id and vendor came back
OwnerChecked(h, op, at) ==
  /\ At(h, op, "checkOwner")
  /\ \/ /\ VendorProduct(catalog, handlers[h].caller, handlers[h].target) # <<>>
        /\ Resume(h, at)
     \/ Answer(h, 404)
  /\ UNCHANGED <<catalog, images>>
  /\ PanelFrame
UpdateProductOwner(h) == OwnerChecked(h, "updateProduct", "update")

\* the body without colors is handed to update() as it is: popularityScore and
\* isActive are no columns of products (popularity_score, is_active are)
UnknownColumn(b) == b.popularityScore # -1 \/ b.isActive # ""
UpdatedRow(row, b) == [row EXCEPT !.w10 = IF b.weight # 0 THEN b.weight ELSE @]
AfterUpdate(b) == IF b.colors # <<>> THEN "deleteImages" ELSE "fetch"

\* updateProduct after the update: 500 on updateError (an unknown column, no
\* row of this id and vendor, a failure), otherwise the row is updated
UpdateProductUpdated(h) ==
  LET id == handlers[h].target
      b == handlers[h].body IN
  /\ At(h, "updateProduct", "update")
  /\ \/ /\ ~UnknownColumn(b)
        /\ VendorProduct(catalog, handlers[h].caller, id) # <<>>
        /\ catalog' = [catalog EXCEPT ![id] = UpdatedRow(@, b)]
        /\ handlers' = [handlers EXCEPT ![h].pc = AfterUpdate(b),
                                        ![h].wrote = (catalog'[id] # catalog[id])]
     \/ /\ Answer(h, 500)
        /\ UNCHANGED catalog
  /\ UNCHANGED images
  /\ PanelFrame

\* updateProduct after the delete of the image rows, whose result is not
\* looked at: the new rows are sent
UpdateProductImagesDeleted(h) ==
  LET id == handlers[h].target IN
  /\ At(h, "updateProduct", "deleteImages")
  /\ \/ /\ images' = images \ ImagesOf(id)
        /\ handlers' = [handlers EXCEPT ![h].pc = "insertImages",
                                        ![h].wrote = (@ \/ ImagesOf(id) # {})]
     \/ /\ Resume(h, "insertImages")
        /\ UNCHANGED images
  /\ UNCHANGED catalog
  /\ PanelFrame

\* updateProduct after the image insert: 500 on imageError, otherwise the
\* product is fetched
UpdateProductImagesInserted(h) ==
  LET id == handlers[h].target
      colors == handlers[h].body.colors IN
  /\ At(h, "updateProduct", "insertImages")
  /\ \/ /\ ~ImageConflict(id, colors)
        /\ images' = images \cup ImageRows(id, colors)
        /\ handlers' = [handlers EXCEPT ![h].pc = "fetch", ![h].wrote = TRUE]
     \/ /\ Answer(h, 500)
        /\ UNCHANGED images
  /\ UNCHANGED catalog
  /\ PanelFrame

\* updateProduct after the fetch: 200, or 500 from the catch block when no
\* product came back and updatedProduct.popularity_score throws
UpdateProductFetched(h) ==
  /\ At(h, "updateProduct", "fetch")
  /\ \/ ProductById(catalog, handlers[h].target) # <<>> /\ Answer(h, 200)
     \/ Answer(h, 500)
  /\ UNCHANGED <<catalog, images>>
  /\ PanelFrame

\* DELETE /products/:id of the panel: the request arrives, the ownership check
\* is sent
DeleteProduct(h, v, id) ==
  /\ Free(h)
  /\ handlers' = [handlers EXCEPT ![h] =
                    Handler("deleteProduct", "checkOwner", v, id, EmptyBody, NoToken)]
  /\ UNCHANGED <<catalog, images>>
  /\ PanelFrame
DeleteProductOwner(h) == OwnerChecked(h, "deleteProduct", "deactivate")

\* deleteProduct after update({ is_active: false }) of the rows of this id and
\* vendor: 200, or 500 on deleteError
DeleteProductDeactivated(h) ==
  LET id == handlers[h].target IN
  /\ At(h, "deleteProduct", "deactivate")
  /\ \/ /\ catalog' = [i \in 1..Len(catalog) |->
                         IF i = id /\ catalog[i].vendor = handlers[h].caller
                         THEN [catalog[i] EXCEPT !.active = FALSE]
                         ELSE catalog[i]]
        /\ Answer(h, 200)
     \/ /\ Answer(h, 500)
        /\ UNCHANGED catalog
  /\ UNCHANGED images
  /\ PanelFrame

\* ---------------------------------------------------------- vendor login
Statuses == {"active", "suspended"}
AuthFrame ==
  UNCHANGED <<oracleVars, listingVars, parserVars, images, nextFavorite>>

AnyStatusAdmits(s) == TRUE

\* if (vendor.status !== 'active') of loginVendor, refreshVendorToken and
\* authenticateVendor
StatusAdmits(s) == s = "active"

\* the status column of a vendor is changed by hand, in the database
SetVendorStatus(v, s) ==
  /\ vendors[v] # s
  /\ vendors' = [vendors EXCEPT ![v] = s]
  /\ UNCHANGED <<handlers, issued>>
  /\ AuthFrame

\* POST /login of the panel: the request arrives, the vendor is looked up by
\* email
LoginVendor(h, v, password) ==
  /\ Free(h)
  /\ handlers' = [handlers EXCEPT ![h] =
                    Handler("loginVendor", "findVendor", 0, 0, EmptyBody,
                            Token(v, "password", password))]
  /\ UNCHANGED <<vendors, issued>>
  /\ AuthFrame

\* the vendor row came back: the handler keeps its status
VendorSeen(h, at) ==
  handlers' = [handlers EXCEPT ![h].pc = at,
                               ![h].seen = vendors[handlers[h].token.id]]

\* loginVendor after the lookup: 401 without a row, 403 unless the status is
\* active, otherwise the password is compared
LoginVendorFound(h) ==
  LET v == handlers[h].token.id IN
  /\ At(h, "loginVendor", "findVendor")
  /\ \/ v \in Vendors /\ StatusAdmits(vendors[v]) /\ VendorSeen(h, "compare")
     \/ v \in Vendors /\ ~StatusAdmits(vendors[v]) /\ Answer(h, 403)
     \/ Answer(h, 401)
  /\ UNCHANGED <<vendors, issued>>
  /\ AuthFrame

\* loginVendor after bcrypt.compare: 401 on a wrong password, otherwise the
\* tokens are made and last_login_at is written
LoginVendorCompared(h) ==
  /\ At(h, "loginVendor", "compare")
  /\ IF handlers[h].token.secret = "right"
     THEN Resume(h, "touch")
     ELSE Answer(h, 401)
  /\ UNCHANGED <<vendors, issued>>
  /\ AuthFrame

\* loginVendor after the update of last_login_at: the tokens are sent
LoginVendorTouched(h) ==
  /\ At(h, "loginVendor", "touch")
  /\ issued' = issued \cup {handlers[h].token.id}
  /\ Answer(h, 200)
  /\ UNCHANGED vendors
  /\ AuthFrame

\* jwt.verify with the secret, then the test of decoded.type
Verifies(token, secret) == token.secret = secret /\ token.type = "vendor"

\* POST /refresh of the panel: 401 unless the token verifies as a vendor's
\* refresh token, otherwise the vendor is looked up by id
RefreshVendorToken(h, token) ==
  /\ Free(h)
  /\ handlers' = [handlers EXCEPT ![h] =
                    IF Verifies(token, "refresh")
                    THEN Handler("refreshVendorToken", "findVendor", 0, 0,
                                 EmptyBody, token)
                    ELSE Answered("refreshVendorToken", 401)]
  /\ UNCHANGED <<vendors, issued>>
  /\ AuthFrame

\* refreshVendorToken after the lookup: 401 without a row or unless the status
\* is active, otherwise new tokens are sent
RefreshVendorFound(h) ==
  LET v == handlers[h].token.id IN
  /\ At(h, "refreshVendorToken", "findVendor")
  /\ \/ /\ v \in Vendors /\ StatusAdmits(vendors[v])
        /\ issued' = issued \cup {v}
        /\ Answer(h, 200)
     \/ /\ Answer(h, 401)
        /\ UNCHANGED issued
  /\ UNCHANGED vendors
  /\ AuthFrame

\* authenticateVendor: 401 unless the bearer token verifies as a vendor's
\* access token, otherwise the vendor is looked up by id
AuthenticateVendor(h, token) ==
  /\ Free(h)
  /\ handlers' = [handlers EXCEPT ![h] =
                    IF Verifies(token, "access")
                    THEN Handler("authenticateVendor", "findVendor", 0, 0,
                                 EmptyBody, token)
                    ELSE Answered("authenticateVendor", 401)]
  /\ UNCHANGED <<vendors, issued>>
  /\ AuthFrame

\* authenticateVendor after the lookup: 401 without a row, 403 unless the
\* status is active, otherwise req.vendor is set and next() is called (200)
AuthenticateVendorFound(h) ==
  LET v == handlers[h].token.id IN
  /\ At(h, "authenticateVendor", "findVendor")
  /\ \/ v \in Vendors /\ StatusAdmits(vendors[v]) /\ Answer(h, 200)
     \/ v \in Vendors /\ ~StatusAdmits(vendors[v]) /\ Answer(h, 403)
     \/ Answer(h, 401)
  /\ UNCHANGED <<vendors, issued>>
  /\ AuthFrame

\* ------------------------------------------------- the payload parser alone
NotParsed == [done |-> FALSE, price |-> Undef, accepted |-> FALSE]

\* fetchGoldPrice from the answer of the primary source to the test of the price
ParsePayload ==
  /\ ~parsed.done
  /\ parsed' = [done |-> TRUE, price |-> ParsePrimary(payload),
                accepted |-> PrimaryAccepts(payload)]
  /\ UNCHANGED <<payload, oracleVars, listingVars, storeVars>>

\* the next refresh gets another answer
NextPayload(r) ==
  /\ parsed.done
  /\ payload' = r
  /\ parsed' = NotParsed
  /\ UNCHANGED <<oracleVars, listingVars, storeVars>>

\* ---------------------------------------------------------- specifications
vars == <<oracleVars, listingVars, parserVars, storeVars>>

\* the price service alone, no listing request
Init ==
  /\ OracleInit
  /\ catalog = <<>> /\ favorites = <<>>
  /\ request = NoRequest /\ response = NoResponse
  /\ payload = Err /\ parsed = NotParsed
  /\ StoreIdle
Next == OracleNext
Spec == Init /\ [][Next]_vars

\* the listings over a catalog, the price service idle without an API URL
IdleEnv ==
  [nodeEnv |-> "development", enableUpdates |-> FALSE, apiUrl |-> FALSE,
   fixerKey |-> FALSE, exchangeKey |-> FALSE, interval |-> Undef]
\* the state StartPeriodicUpdates leaves under IdleEnv: no cron job, and the
\* initial fetchGoldPrice has returned the cached price at once
IdleService ==
  /\ env = IdleEnv
  /\ booted = TRUE
  /\ updateInterval = UpdateIntervalOf(env)
  /\ currentGoldPrice = Num(DefaultGoldPrice)
  /\ lastUpdateTime = NullTime
  /\ cronScheduled = CronEnabled(env)
  /\ now = CronSeconds \div 2
  /\ lastTick = 0
  /\ tickGap = 0
  /\ started = 1
  /\ pc = [i \in Calls |-> IF i = 1 THEN "done" ELSE "idle"]
  /\ apiIdx = [i \in Calls |-> 0]
  /\ deadline = [i \in Calls |-> 0]
  /\ outcome = [i \in Calls |-> IF i = 1 THEN "returned" ELSE "pending"]
  /\ running = 0
  /\ answers = [i \in Calls |-> <<>>]
  /\ wrotePrice = [i \in Calls |-> Undef]
  /\ committed = <<Num(DefaultGoldPrice), NullTime>>
  /\ everSucceeded = FALSE
  /\ lastWriter = 0
ListingSpecInit ==
  /\ IdleService
  /\ ListingInit
  /\ payload = Err /\ parsed = NotParsed
  /\ StoreIdle
ListingSpec == ListingSpecInit /\ [][ListingNext]_vars

\* the request handlers beside the running price service: production, with a
\* primary source and the fixer key; a handler runs from the answer of its last
\* query to res.json in one piece, so the service moves between requests only
ServeEnv ==
  [nodeEnv |-> "production", enableUpdates |-> FALSE, apiUrl |-> TRUE,
   fixerKey |-> TRUE, exchangeKey |-> FALSE, interval |-> Undef]
ServeCatalog ==
  <<ProductRow(155, 80, TRUE, 1), ProductRow(10, 0, TRUE, 1),
    ProductRow(52, 50, FALSE, 2)>>
ServeInit ==
  /\ OracleInit /\ env = ServeEnv
  /\ catalog = ServeCatalog
  /\ favorites = <<FavoriteRow(2, 1, 2), FavoriteRow(1, 1, 1)>>
  /\ request = NoRequest /\ response = NoResponse
  /\ payload = Err /\ parsed = NotParsed
  /\ StoreIdle
FirstPage(q) == q.page = 1 /\ q.limit = MaxLimit /\ q.minPrice = Undef
ServeNext ==
  \/ request = NoRequest /\ StartPeriodicUpdates
  \/ request = NoRequest /\ CronTick
  \/ request = NoRequest /\ AdvanceClock
  \/ request = NoRequest /\ \E i \in Calls, r \in PrimaryResponses : PrimaryResponds(i, r)
  \/ request = NoRequest /\ \E i \in Calls : EnterFallback(i)
  \/ request = NoRequest /\ \E i \in Calls : StampTime(i)
  \/ request = NoRequest /\ \E i \in Calls : FallbackResponds(i)
  \/ \E q \in {r \in Requests : FirstPage(r)} : GetProducts(q)
  \/ \E q \in {r \in VendorRequests : FirstPage(r)} : GetVendorProducts(q)
  \/ \E q \in {r \in PanelRequests : FirstPage(r)} : PanelGetVendorProducts(q)
  \/ \E u \in Users : GetFavorites(u)
  \/ \E id \in ProductIds : GetProductById(id)
  \/ \E v \in Vendors, id \in ProductIds : GetVendorProductById(v, id)
  \/ HealthCheck
  \/ Respond
ServeSpec == ServeInit /\ [][ServeNext]_vars

\* the refresh on its own in production with the primary source and both
\* secondaries configured, started 5 s before a cron minute. axios settles every request by its timeout and the
\* event loop runs every continuation that is ready, so each step of a call
\* that can be taken is taken in the end
RefreshEnv ==
  [nodeEnv |-> "production", enableUpdates |-> FALSE, apiUrl |-> TRUE,
   fixerKey |-> TRUE, exchangeKey |-> TRUE, interval |-> Undef]
RefreshInit == Init /\ env = RefreshEnv /\ now = CronSeconds - 5
RefreshFairness ==
  /\ WF_vars(\E i \in Calls, r \in PrimaryResponses : PrimaryResponds(i, r))
  /\ WF_vars(\E i \in Calls : EnterFallback(i))
  /\ WF_vars(\E i \in Calls : StampTime(i))
  /\ WF_vars(\E i \in Calls : FallbackResponds(i))
RefreshSpec == RefreshInit /\ [][Next]_vars /\ RefreshFairness

\* addFavorite and removeFavorite of two users over an active and an inactive
\* product, up to MaxHandlers requests at a time, the price service idle; a
\* removeFavorite names an id the server has handed out
FavoritesCatalog == <<ProductRow(155, 80, TRUE, 1), ProductRow(10, 0, FALSE, 1)>>
FavoritesInit ==
  /\ IdleService
  /\ catalog = FavoritesCatalog /\ favorites = <<>>
  /\ request = NoRequest /\ response = NoResponse
  /\ payload = Err /\ parsed = NotParsed
  /\ StoreIdle
FavoritesNext ==
  \/ \E h \in Handlers, u \in Users, p \in 1..Len(catalog) : AddFavorite(h, u, p)
  \/ \E h \in Handlers : AddFavoriteProduct(h)
  \/ \E h \in Handlers : AddFavoriteExisting(h)
  \/ \E h \in Handlers : AddFavoriteInsert(h)
  \/ \E h \in Handlers, u \in Users, id \in 1..(nextFavorite - 1) :
       RemoveFavorite(h, u, id)
  \/ \E h \in Handlers : RemoveFavoriteFound(h)
  \/ \E h \in Handlers : RemoveFavoriteDeleted(h)
FavoritesSpec == FavoritesInit /\ [][FavoritesNext]_vars

\* the vendor panel's createProduct, updateProduct and deleteProduct, one
\* request at a time, over a product of each vendor, beside the public and the
\* panel's listings and details; the price service idle. Vendor 1 creates
\* products and writes to its own product and to vendor 2's, vendor 2 writes to
\* vendor 1's
PanelCatalog == <<ProductRow(155, 80, TRUE, 1), ProductRow(52, 50, TRUE, 2)>>
CreateBodies ==
  {Body(10, 0, "", <<"yellow">>), Body(10, 0, "", <<"yellow", "yellow">>)}
UpdateBodies ==
  {Body(20, -1, "", <<>>), Body(20, -1, "", <<"white">>),
   Body(20, -1, "", <<"white", "white">>), Body(0, -1, "true", <<>>)}
PanelInit ==
  /\ IdleService
  /\ catalog = PanelCatalog /\ favorites = <<>>
  /\ request = NoRequest /\ response = NoResponse
  /\ payload = Err /\ parsed = NotParsed
  /\ images = {<<1, "yellow">>, <<2, "yellow">>}
  /\ vendors = [v \in Vendors |-> "active"]
  /\ handlers = [h \in Handlers |-> IdleHandler]
  /\ issued = {}
  /\ nextFavorite = 1
PanelTargets == {<<1, 1>>, <<1, 2>>, <<2, 1>>}
PlainFirstPage(q) ==
  FirstPage(q) /\ q.maxPrice = Undef /\ q.sort = <<"name", "asc">>
PanelNext ==
  \/ /\ Len(catalog) < MaxProducts
     /\ \E b \in CreateBodies : CreateProduct(1, 1, b)
  \/ CreateProductInserted(1)
  \/ CreateProductImages(1)
  \/ CreateProductRollback(1)
  \/ CreateProductFetched(1)
  \/ \E vp \in PanelTargets, b \in UpdateBodies : UpdateProduct(1, vp[1], vp[2], b)
  \/ UpdateProductOwner(1)
  \/ UpdateProductUpdated(1)
  \/ UpdateProductImagesDeleted(1)
  \/ UpdateProductImagesInserted(1)
  \/ UpdateProductFetched(1)
  \/ \E vp \in PanelTargets : DeleteProduct(1, vp[1], vp[2])
  \/ DeleteProductOwner(1)
  \/ DeleteProductDeactivated(1)
  \/ \E q \in {r \in Requests : PlainFirstPage(r)} : GetProducts(q)
  \/ \E id \in 1..Len(catalog) : GetProductById(id)
  \/ \E q \in {r \in PanelRequests : PlainFirstPage(r)} : PanelGetVendorProducts(q)
  \/ \E v \in Vendors, id \in 1..Len(catalog) : GetVendorProductById(v, id)
  \/ Respond
PanelSpec == PanelInit /\ [][PanelNext]_vars

\* the vendors' login, token refresh and authenticated requests, up to
\* MaxHandlers at a time, while the status of a vendor is changed. A token that
\* verifies was signed by this server: it names a vendor that was handed one
AuthInit ==
  /\ IdleService
  /\ catalog = <<>> /\ favorites = <<>>
  /\ request = NoRequest /\ response = NoResponse
  /\ payload = Err /\ parsed = NotParsed
  /\ StoreIdle
Presented ==
  {Token(v, "vendor", s) : v \in issued, s \in {"access", "refresh"}}
    \cup {Token(1, "user", "access"), Token(1, "vendor", "")}
AuthNext ==
  \/ \E v \in Vendors, s \in Statuses : SetVendorStatus(v, s)
  \/ \E h \in Handlers, v \in Vendors \cup {0}, pw \in {"right", "wrong"} :
       LoginVendor(h, v, pw)
  \/ \E h \in Handlers : LoginVendorFound(h)
  \/ \E h \in Handlers : LoginVendorCompared(h)
  \/ \E h \in Handlers : LoginVendorTouched(h)
  \/ \E h \in Handlers, token \in Presented : RefreshVendorToken(h, token)
  \/ \E h \in Handlers : RefreshVendorFound(h)
  \/ \E h \in Handlers, token \in Presented : AuthenticateVendor(h, token)
  \/ \E h \in Handlers : AuthenticateVendorFound(h)
AuthSpec == AuthInit /\ [][AuthNext]_vars

\* calculateProductPrice over products and cached prices: development with a
\* primary source, after the initial fetch has stored the price it was given
PricingEnv ==
  [nodeEnv |-> "development", enableUpdates |-> FALSE, apiUrl |-> TRUE,
   fixerKey |-> FALSE, exchangeKey |-> FALSE, interval |-> Undef]
CachedPrices == {Num(1), Num(1950), Num(DefaultGoldPrice)}
PricingRows ==
  {ProductRow(w10, p10, TRUE, 1) : w10 \in {1, 2, 155}, p10 \in {0, 10, 20, 80}}
PricingInit ==
  /\ env = PricingEnv
  /\ booted = TRUE
  /\ updateInterval = UpdateIntervalOf(env)
  /\ currentGoldPrice \in CachedPrices
  /\ now = CronSeconds \div 2
  /\ lastUpdateTime = now
  /\ cronScheduled = CronEnabled(env)
  /\ lastTick = 0
  /\ tickGap = 0
  /\ started = 1
  /\ pc = [i \in Calls |-> IF i = 1 THEN "done" ELSE "idle"]
  /\ apiIdx = [i \in Calls |-> 0]
  /\ deadline = [i \in Calls |-> 0]
  /\ outcome = [i \in Calls |-> IF i = 1 THEN "returned" ELSE "pending"]
  /\ running = 0
  /\ answers = [i \in Calls |-> <<>>]
  /\ wrotePrice = [i \in Calls |-> Undef]
  /\ committed = <<currentGoldPrice, lastUpdateTime>>
  /\ everSucceeded = TRUE
  /\ lastWriter = 1
  /\ catalog \in [1..2 -> PricingRows]
  /\ favorites \in FavoriteLists(catalog)
  /\ request = NoRequest /\ response = NoResponse
  /\ payload = Err /\ parsed = NotParsed
  /\ StoreIdle
PricingNext ==
  \/ \E q \in {r \in Requests : FirstPage(r)} : GetProducts(q)
  \/ \E u \in Users : GetFavorites(u)
  \/ Respond
PricingSpec == PricingInit /\ [][PricingNext]_vars

\* the payload parser over the answers a primary source can give
ParsePayloads ==
  PrimaryResponses \cup
  {Response(TRUE, TRUE, p, g, Undef) :
     p \in {Num(-3), Str(<<"1", "9", "5", "0">>)}, g \in GoldVals}
ParseInit ==
  /\ IdleService
  /\ catalog = <<>> /\ favorites = <<>>
  /\ request = NoRequest /\ response = NoResponse
  /\ payload \in ParsePayloads /\ parsed = NotParsed
  /\ StoreIdle
ParseNext ==
  \/ ParsePayload
  \/ \E r \in ParsePayloads : NextPayload(r)
ParseSpec == ParseInit /\ [][ParseNext]_vars

\* ------------------------------------------------------------------ claims

\* the page the listing is to return: the whole candidate set priced, filtered
\* by price, sorted by price when asked, and only then cut into pages
InRangeCandidates(cat, q) ==
  SelectSeq(Decorate(OrderBy(Candidates(cat, q), OrderColumn(q.sort[1]),
                             q.sort[2] = "asc")),
            LAMBDA p : InPriceRange(p, q))
ExpectedPage(cat, q) ==
  LET all == IF q.sort[1] = "price"
             THEN SortByPrice(InRangeCandidates(cat, q), q.sort[2] = "asc")
             ELSE InRangeCandidates(cat, q)
  IN Slice(all, (q.page - 1) * q.limit, q.page * q.limit)
Served == request # NoRequest /\ response.status = 200

\* C1: with a price filter, page p of limit L holds elements (p-1)*L .. p*L-1
\* of all the candidates whose calculatedPrice is within [min, max].
C1_PageOfWholeFilteredSet ==
  (Served /\ PriceFilterActive(request)) =>
    response.products = ExpectedPage(catalog, request)

\* C2: with a price filter, pagination.total is the number of candidates of the
\* whole set within [min, max], and pagination.pages is ceil(total / limit).
C2_TotalOfWholeFilteredSet ==
  (Served /\ PriceFilterActive(request)) =>
    /\ response.total = Len(InRangeCandidates(catalog, request))
    /\ response.pages = Ceil(Len(InRangeCandidates(catalog, request)), request.limit)

Active(i) == pc[i] \notin {"idle", "done"}

\* C3: at most one fetchGoldPrice call is in flight at any time.
C3_SingleFlight == Cardinality({i \in Calls : Active(i)}) <= 1

IsFinitePositive(x) == x.k = "num" /\ x.n > 0

\* C4: the cached price is always a finite, strictly positive number.
C4_PriceFinitePositive == IsFinitePositive(currentGoldPrice)

\* a secondary's answer that carries a positive price
Usable(r) == FallbackReturns(r) /\ Gt0(FallbackValue(r))
PrimaryFailedFor(i) ==
  pc[i] \in {"catch", "fallback"} \/ (pc[i] = "stamp" /\ apiIdx[i] > 0)
AllSourcesFailed(i) ==
  PrimaryFailedFor(i) /\ \A k \in 1..Len(answers[i]) : ~Usable(answers[i][k])

\* C5: a refresh whose primary and secondary sources all fail does not assign
\* the cache: price and timestamp stay what they were.
C5_AllFailedKeepsCache ==
  \A i \in Calls : AllSourcesFailed(i) => (pc[i] # "stamp" /\ wrotePrice[i] = Undef)

FirstUsable(i) ==
  CHOOSE k \in 1..Len(answers[i]) :
    Usable(answers[i][k]) /\ \A j \in 1..(k - 1) : ~Usable(answers[i][j])

\* C6: when the primary fails and a configured secondary answers with a usable
\* price, the refresh ends with the cache holding the value of the first such
\* secondary and a fresh timestamp, in every configuration.
C6_FirstUsableSecondaryWins ==
  [][\A i \in Calls :
       (PrimaryFailedFor(i) /\ pc'[i] = "done"
        /\ \E k \in 1..Len(answers[i]) : Usable(answers[i][k]))
       => (/\ currentGoldPrice' = FallbackValue(answers[i][FirstUsable(i)])
           /\ lastUpdateTime' = now')]_vars

\* C7: whenever a reader can run, the price and the timestamp it reads are the
\* pair of one completed update, or the initial pair.
C7_ReaderSeesWholePair ==
  running = 0 => <<GetCurrentPrice, GetLastUpdateTime>> = committed
C7_Witness ==
  /\ running = 0 /\ lastUpdateTime # NullTime
  /\ currentGoldPrice # Num(DefaultGoldPrice)
  /\ \E i \in Calls : InFlight(i)

\* C8: lastUpdateTime is null exactly as long as no fetch has succeeded, and
\* then the price is the default 2000.
C8_NullUntilFirstSuccess ==
  running = 0 =>
    /\ (lastUpdateTime = NullTime) <=> ~everSucceeded
    /\ lastUpdateTime = NullTime => currentGoldPrice = Num(DefaultGoldPrice)

\* C9: the refresh recurs on a fixed interval whose length is the configured
\* update interval: two consecutive ticks are updateInterval apart.
C9_TicksAtConfiguredInterval == tickGap # 0 => tickGap * 1000 = updateInterval

\* C10: no fetchGoldPrice call rejects, whatever the sources deliver.
C10_RefreshNeverRejects == \A i \in Calls : outcome[i] # "rejected"
C10_Witness ==
  /\ env.apiUrl /\ started = 1 /\ pc[1] = "done" /\ outcome[1] = "returned"
  /\ lastUpdateTime = NullTime

\* C11: without a primary source URL no refresh sends a request, to the
\* primary or to a secondary, and the cache keeps the price and the timestamp
\* it was constructed with.
C11_NoUrlNoNetwork ==
  ~env.apiUrl =>
    /\ \A i \in Calls : pc[i] \in {"idle", "done"} /\ deadline[i] = 0
    /\ GetCurrentPrice = Num(DefaultGoldPrice)
    /\ GetLastUpdateTime = NullTime
C11_Witness ==
  /\ ~env.apiUrl /\ started = MaxRefresh
  /\ \A i \in Calls : pc[i] = "done" /\ outcome[i] = "returned"

\* C15: an update is never completed by a call that started before the call
\* whose update the cache holds.
C15_LatestStartedWins ==
  [][\A i \in Calls : (pc[i] = "stamp" /\ pc'[i] = "done") => lastWriter <= i]_vars

\* the number each known field of a payload stands for
FieldValues(r) ==
  <<ParseFloat(r.price), ParseFloat(r.gold), Recip(ParseFloat(r.xau))>>
FirstPositiveField(r) ==
  CHOOSE k \in 1..3 :
    /\ IsFinitePositive(FieldValues(r)[k])
    /\ \A j \in 1..(k - 1) : ~IsFinitePositive(FieldValues(r)[j])

\* C12: the fields price, gold, 1 / rates.XAU are tried in this order and the
\* first that yields a positive number is the accepted price, also when an
\* earlier field is present and yields none.
C12_FirstPositiveFieldAccepted ==
  (/\ parsed.done /\ payload.ok /\ payload.body
   /\ \E k \in 1..3 : IsFinitePositive(FieldValues(payload)[k]))
    => /\ parsed.accepted
       /\ parsed.price = FieldValues(payload)[FirstPositiveField(payload)]

\* calculateProductPrice at the gold price g
PricedAt(g, p10, w10) == IF g.k = "num" THEN Rat(PriceCents(g, p10, w10), 100) ELSE g
Listed == Served /\ request.route # "health"

C14_ReadersNeverFetch ==
  /\ [](running = 0 /\ request = NoRequest =>
          ENABLED HealthCheck /\ ENABLED GetFavorites(1))
  /\ [][request' # request => UNCHANGED oracleVars]_vars
C14_Witness ==
  /\ Served /\ lastUpdateTime = NullTime
  /\ \E i \in Calls : pc[i] = "fallback"

\* C16: whatever the price sources do, the health check does not report
\* goldPriceService unhealthy and does not answer 503 with a healthy database.
C16_HealthIgnoresUpstream ==
  request.route = "health" =>
    /\ response.goldPriceService # "unhealthy"
    /\ response.database = "healthy" => response.status = 200

RECURSIVE Multiplied(_, _, _, _)
\* <<floor(x * m1 * ... * mk), the remainder>> for x = q + r / d
Multiplied(q, r, d, ms) ==
  IF ms = <<>> THEN <<q, r>>
  ELSE Multiplied(q * Head(ms) + (r * Head(ms)) \div d, (r * Head(ms)) % d, d,
                  Tail(ms))

\* round(100 * (p + 1) * w * g / grams) for grams = gramsNum / (m1 * ... * mk)
ReferenceCents(g, p10, w10, gramsNum, ms) ==
  LET a == (p10 + 10) * w10 * g.n
      d == gramsNum * g.d
  IN RoundHalfUp(Multiplied(a \div d, a % d, d, ms), d)

\* 31.1034768 = 19439673 / 625000
ExactOunceCents(g, p10, w10) ==
  ReferenceCents(g, p10, w10, 19439673, <<10, 10, 10, 5, 5, 5, 5>>)
\* 31.1035 = 62207 / 2000
RoundedOunceCents(g, p10, w10) ==
  ReferenceCents(g, p10, w10, 62207, <<10, 10, 10, 2>>)

ValidPrice == Listed /\ IsFinitePositive(response.goldPrice)

IsExampleProduct(p) == p.row.w10 = 155 /\ p.row.p10 = 80
ExampleListed ==
  /\ Listed /\ currentGoldPrice = Num(DefaultGoldPrice)
  /\ \E i \in 1..Len(response.products) : IsExampleProduct(response.products[i])

ValidScores == {0, 5, 10, 20, 30, 40, 50, 60, 70, 80, 90, 100}
ValidWeights == {1, 2, 3, 10, 52, 154, 155, 156}
Le(a, b) == ~Lt(b, a)

InPriceOrder(a, b, asc) ==
  IF a.calculatedPrice = b.calculatedPrice
  THEN IF asc THEN a.name < b.name ELSE a.name > b.name
  ELSE IF asc THEN Lt(a.calculatedPrice, b.calculatedPrice)
       ELSE Lt(b.calculatedPrice, a.calculatedPrice)
PageOf(cat, q, k) == ListPage(cat, [q EXCEPT !.page = k]).products
PriceSorted ==
  /\ Served /\ request.route \in {"products", "vendorProducts"}
  /\ request.sort[1] = "price"

\* C20: with sortBy = price the pages are cut from the whole candidate set
\* sorted by calculatedPrice: the served page is in price order, and every
\* product of an earlier page comes before every product of the served page.
C20_PriceOrderAcrossPages ==
  PriceSorted =>
    LET asc == request.sort[2] = "asc"
        here == response.products
    IN /\ \A i, j \in 1..Len(here) : i < j => InPriceOrder(here[i], here[j], asc)
       /\ \A k \in 1..(request.page - 1) :
            \A i \in 1..Len(PageOf(catalog, request, k)), j \in 1..Len(here) :
              InPriceOrder(PageOf(catalog, request, k)[i], here[j], asc)

\* the products the price filter of the served request was handed: the page
\* the database cut, priced
FilterInput(cat, q) ==
  LET offset == (q.page - 1) * q.limit
  IN Decorate(Range(OrderBy(Candidates(cat, q), OrderColumn(q.sort[1]),
                            q.sort[2] = "asc"),
                    offset, offset + q.limit - 1))
FilterOutput(cat, q) ==
  IF PriceFilterActive(q)
  THEN SelectSeq(FilterInput(cat, q), LAMBDA p : InPriceRange(p, q))
  ELSE FilterInput(cat, q)
WithinBounds(p, q) ==
  /\ q.minPrice # Undef => Le(q.minPrice, p.calculatedPrice)
  /\ q.maxPrice # Undef => Le(p.calculatedPrice, q.maxPrice)
BoundedListing ==
  /\ Served /\ request.route \in {"products", "vendorProducts"}
  /\ response.status = 200
  /\ request.minPrice # Undef \/ request.maxPrice # Undef

\* C21: when a minimum and/or a maximum price is supplied, every product of
\* the response has minPrice <= calculatedPrice <= maxPrice, bounds included,
\* and the filter drops no product of its input that satisfies the bounds.
C21_WithinSuppliedBounds ==
  BoundedListing =>
    /\ \A i \in 1..Len(response.products) :
         WithinBounds(response.products[i], request)
    /\ \A i \in 1..Len(FilterInput(catalog, request)) :
         WithinBounds(FilterInput(catalog, request)[i], request) =>
           \E j \in 1..Len(FilterOutput(catalog, request)) :
             FilterOutput(catalog, request)[j] = FilterInput(catalog, request)[i]

CacheWritten ==
  currentGoldPrice' # currentGoldPrice \/ lastUpdateTime' # lastUpdateTime
\* a step of a fetchGoldPrice call that is past its first await
RefreshStep ==
  /\ request' = request
  /\ \E i \in Calls : pc[i] \in {"primary", "fallback", "stamp"} /\ pc'[i] # pc[i]

\* C22: currentGoldPrice and lastUpdateTime are written by the refresh only:
\* every step that changes either is a step of a fetchGoldPrice call, and no
\* request handler (listing, detail, favorites, vendor products, health)
\* changes them.
C22_OnlyRefreshWritesCache ==
  [][/\ CacheWritten => RefreshStep
     /\ request' # request => ~CacheWritten]_vars
C22_Witness ==
  /\ Served /\ request.route = "product"
  /\ lastUpdateTime # NullTime
  /\ currentGoldPrice # Num(DefaultGoldPrice)
  /\ response.goldPrice = currentGoldPrice

\* what one step may do to call i: it leaves idle only to ask the primary,
\* asks the secondaries one after the other, each once, and once done it stays
\* done
OnePass(i) ==
  /\ pc'[i] = "primary" /\ pc[i] # "primary" => pc[i] = "idle"
  /\ pc[i] # "idle" => pc'[i] # "idle"
  /\ pc[i] = "done" => pc'[i] = "done"
  /\ apiIdx'[i] # apiIdx[i] =>
       \/ apiIdx'[i] = apiIdx[i] + 1 /\ apiIdx'[i] <= Len(FallbackApis(env))
       \/ apiIdx'[i] = 0 /\ pc'[i] = "done"
  /\ pc[i] = "fallback" /\ pc'[i] = "fallback" /\ deadline'[i] # deadline[i] =>
       apiIdx'[i] = apiIdx[i] + 1

\* C23: a refresh that was started terminates; on the way it asks the primary
\* source at most once and each configured secondary at most once, in order,
\* with no retry. A call that is done stays done and no more than MaxRefresh
\* calls are started, so all of them terminate exactly when from some point on
\* no call is under way.
C23_RefreshTerminates ==
  /\ [][\A i \in Calls : OnePass(i)]_vars
  /\ <>[](\A i \in Calls : pc[i] \in {"idle", "done"})
C23_Witness ==
  /\ pc[1] = "done" /\ outcome[1] = FallbackFailed /\ lastUpdateTime = NullTime
  /\ pc[2] = "fallback" /\ apiIdx[2] = 2

\* C26: in every reachable state the favorites table holds at most one row for
\* a (user, product) pair, whatever the interleaving of addFavorite and
\* removeFavorite requests.
C26_OneFavoritePerPair ==
  \A i, j \in 1..Len(favorites) :
    favorites[i].user = favorites[j].user /\ favorites[i].product = favorites[j].product
      => i = j

C26_Witness ==
  \E h \in Handlers :
    /\ At(h, "addFavorite", "insert") /\ handlers[h].seen = ""
    /\ FavoriteOf(handlers[h].caller, handlers[h].target) # {}
    /\ Len(favorites) = 2

\* handler h answers its request in this step
Answers(h, op) ==
  /\ handlers[h].op = op /\ handlers[h].pc # "done"
  /\ handlers'[h].pc = "done"

\* C24: an addFavorite for a product that is in the user's favorites when the
\* handler comes to it answers 409 and leaves the table as it is, also when two
\* addFavorite of one user and product run at once. Every query of the handler
\* is answered without an error of the database's own.
C24_DuplicateAnswers409 ==
  [][\A h \in Handlers :
       /\ Answers(h, "addFavorite")
       /\ handlers[h].pc \in {"findExisting", "insert"} /\ handlers[h].seen = ""
       /\ FavoriteOf(handlers[h].caller, handlers[h].target) # {}
       => handlers'[h].status = 409 /\ favorites' = favorites]_vars

\* C27: createProduct is all-or-nothing: when it answers with an error, no
\* product row created by that call remains.
C27_CreateAllOrNothing ==
  [][\A h \in Handlers :
       Answers(h, "createProduct") /\ handlers'[h].status >= 400 /\ handlers[h].wrote
       => catalog'[handlers[h].target] = NoRow]_vars

\* C28: updateProduct leaves the stored product as it was when it answers with
\* an error: neither the product row nor its image rows were changed by the
\* call.
C28_FailedUpdateChangesNothing ==
  [][\A h \in Handlers :
       Answers(h, "updateProduct") /\ handlers'[h].status >= 400
       => ~handlers[h].wrote /\ catalog' = catalog /\ images' = images]_vars

\* handler h acts in this step on a product of another vendor
ActsOnForeign(h) ==
  /\ handlers'[h] # handlers[h]
  /\ handlers[h].op \in {"updateProduct", "deleteProduct"}
  /\ handlers[h].target \in 1..Len(catalog)
  /\ catalog[handlers[h].target].vendor # handlers[h].caller
ForeignDetail ==
  /\ request' # request /\ request'.route = "panelProduct"
  /\ request'.id \in 1..Len(catalog)
  /\ catalog[request'.id].vendor # request'.vendorId

\* C29: getVendorProductById, updateProduct and deleteProduct called by vendor
\* V never return, modify or deactivate a product whose vendor_id is not V:
\* they answer with an error and the product and its images stay as they were.
C29_VendorIsolation ==
  [][/\ \A h \in Handlers :
          ActsOnForeign(h) =>
            /\ catalog' = catalog /\ images' = images
            /\ handlers'[h].pc = "done" /\ handlers'[h].status = 404
     /\ ForeignDetail =>
          response'.status = 404 /\ response'.products = <<>>]_vars
C29_Witness ==
  /\ handlers[1] = Answered("deleteProduct", 404)
  /\ request = PanelProductRequest(2, 1) /\ response.status = 404
  /\ catalog = PanelCatalog

\* a row that is there, inactive, and not the one a createProduct under way
\* has just made
Hidden(id) ==
  /\ catalog[id] # NoRow /\ ~catalog[id].active
  /\ \A h \in Handlers : ~(handlers[h].op = "createProduct" /\ handlers[h].target = id)
PublicRoutes == {"products", "vendorProducts", "product"}
OwnerSees(id) ==
  LET v == catalog[id].vendor IN
  /\ VendorProduct(catalog, v, id) # <<>>
  /\ \E q \in PanelRequests :
       /\ q.vendorId = v
       /\ \E i \in 1..Len(PanelPage(catalog, q).products) :
            PanelPage(catalog, q).products[i].name = id

VendorOps == {"loginVendor", "refreshVendorToken", "authenticateVendor"}
\* the status check of handler h has passed, in this step or in an earlier one
CheckPassed(h) ==
  IF handlers[h].pc = "findVendor"
  THEN /\ handlers[h].token.id \in Vendors
       /\ vendors[handlers[h].token.id] = "active"
  ELSE handlers[h].seen = "active"

====
